---------------------------- MODULE Spec2Model ----------------------------
(***************************************************************************)
(* Model of ParamPassTiming.cpp: a benchmark that times passing a          *)
(* RandArray<T, N> by value and by reference against an inline baseline,   *)
(* records the timings per (element size, array size, run) and reports     *)
(* median-adjusted results.                                                *)
(*                                                                         *)
(* A size_t value is a little-endian sequence of SizeofSizeT bytes, so     *)
(* that the arithmetic of the program is carried out with its real width   *)
(* (modulo 2^64) although the model checker's integers are 32 bits wide.   *)
(***************************************************************************)
EXTENDS Integers, Sequences, FiniteSets, TLC

\* ------------------------------------------------------------------------
\* Program constants
\* ------------------------------------------------------------------------

\* CHAR_BIT: bits per byte.
CharBit == 8

\* sizeof(size_t) of the (LP64 / LLP64) target.
SizeofSizeT == 8

\* sizeof(uint64_t), the widest element type evaluated.
SizeofU64 == 8

\* The multiplier and the increment of FauxRand's recurrence.
kMul == 214013

kInc == 2531011

\* The seed of the global generator rnd.
kGlobalSeed == 42

kValuesToSumMax == 4

kSlots == 16

\* kTotalRuns of the _DEBUG configuration.
kTotalRuns == 3

\* ------------------------------------------------------------------------
\* Bounds of the model
\* ------------------------------------------------------------------------

\* Passes of each timed loop (the program's kTotalPasses is 100000 in the
\* _DEBUG configuration; the model runs the same loop for fewer passes).
kTotalPasses == 2

\* kMaxArraySizex2 is 2^MaxArraySizeExp (the program's is 2^12).
MaxArraySizeExp == 2

\* Largest small seed drawn for the generator in the unit specifications.
MaxSeed == 2

\* Draws per repetition in the generator's specification.
MaxDraws == 3

\* ------------------------------------------------------------------------
\* size_t arithmetic on byte sequences
\* ------------------------------------------------------------------------

RECURSIVE Pow2(_)
Pow2(n) == IF n = 0 THEN 1 ELSE 2 * Pow2(n - 1)

Base == Pow2(CharBit)

Bytes == 0 .. (Base - 1)

Zero(len) == [i \in 1 .. len |-> 0]

\* The size_t whose value is the small natural n (n < 2^31).
RECURSIVE NatBytes(_, _)
NatBytes(n, len) ==
  IF len = 0 THEN << >> ELSE << n % Base >> \o NatBytes(n \div Base, len - 1)

SizeT(n) == NatBytes(n, SizeofSizeT)

\* x * m + c modulo Base^Len(x), for small m and c: one pass over the bytes
\* of x with a running carry.
RECURSIVE MulAddFrom(_, _, _, _)
MulAddFrom(x, m, carry, i) ==
  IF i > Len(x) THEN << >>
  ELSE LET t == x[i] * m + carry
       IN  << t % Base >> \o MulAddFrom(x, m, t \div Base, i + 1)

MulAdd(x, m, c) == MulAddFrom(x, m, c, 1)

\* x + y modulo Base^Len(x).
RECURSIVE AddFrom(_, _, _, _)
AddFrom(x, y, carry, i) ==
  IF i > Len(x) THEN << >>
  ELSE LET t == x[i] + y[i] + carry
       IN  << t % Base >> \o AddFrom(x, y, t \div Base, i + 1)

Add(x, y) == AddFrom(x, y, 0, 1)

\* x << 1 modulo Base^Len(x).
RECURSIVE Shl1From(_, _, _)
Shl1From(x, carry, i) ==
  IF i > Len(x) THEN << >>
  ELSE << (2 * x[i] + carry) % Base >> \o Shl1From(x, x[i] \div (Base \div 2), i + 1)

Shl1(x) == Shl1From(x, 0, 1)

\* Bitwise exclusive or of two bytes, then of two size_t values.
RECURSIVE XorBits(_, _, _)
XorBits(a, b, k) ==
  IF k = 0 THEN 0
  ELSE ((a + b) % 2) + 2 * XorBits(a \div 2, b \div 2, k - 1)

\* The exclusive or of two half bytes, tabulated.
HalfByte == Pow2(CharBit \div 2)

XorHalf == [a \in 0 .. HalfByte - 1 |-> [b \in 0 .. HalfByte - 1 |-> XorBits(a, b, CharBit \div 2)]]

XorByte(a, b) ==
  XorHalf[a % HalfByte][b % HalfByte] + HalfByte * XorHalf[a \div HalfByte][b \div HalfByte]

Xor(x, y) == [i \in 1 .. Len(x) |-> XorByte(x[i], y[i])]

\* x % n for a small n (Horner from the most significant byte).
RECURSIVE ModFrom(_, _, _, _)
ModFrom(x, n, r, i) ==
  IF i = 0 THEN r ELSE ModFrom(x, n, (r * Base + x[i]) % n, i - 1)

Mod(x, n) == ModFrom(x, n, 0, Len(x))

\* static_cast<T>(x) for an unsigned T of size bytes: the low bytes.
Truncate(x, size) == SubSeq(x, 1, size)

\* static_cast<size_t>(v) of an unsigned value of fewer bytes: zero extension.
Widen(v) == v \o Zero(SizeofSizeT - Len(v))

\* ------------------------------------------------------------------------
\* Reference arithmetic on bit sequences (least significant bit first),
\* used only to state what the byte arithmetic above must compute.
\* ------------------------------------------------------------------------

RECURSIVE ByteBits(_, _)
ByteBits(b, k) == IF k = 0 THEN << >> ELSE << b % 2 >> \o ByteBits(b \div 2, k - 1)

RECURSIVE ToBits(_)
ToBits(x) == IF x = << >> THEN << >> ELSE ByteBits(Head(x), CharBit) \o ToBits(Tail(x))

RECURSIVE NatBits(_, _)
NatBits(n, len) == IF len = 0 THEN << >> ELSE << n % 2 >> \o NatBits(n \div 2, len - 1)

\* The binary number whose digit columns hold the (small) sums cols: the
\* carries are propagated upwards, the carry out of the top bit dropped.
RECURSIVE Propagate(_, _, _)
Propagate(cols, carry, i) ==
  IF i > Len(cols) THEN << >>
  ELSE LET s == cols[i] + carry
       IN  << s % 2 >> \o Propagate(cols, s \div 2, i + 1)

BitsAdd(a, b) == Propagate([i \in 1 .. Len(a) |-> a[i] + b[i]], 0, 1)

\* a * m + c modulo 2^Len(a), by long multiplication in base 2: column j
\* counts the pairs of set bits of a and m whose weights multiply to 2^j.
BitsMulAdd(a, m, c) ==
  LET mb == NatBits(m, Len(a))
      cb == NatBits(c, Len(a))
  IN  Propagate([j \in 1 .. Len(a) |->
                   cb[j] + Cardinality({i \in 1 .. j : mb[i] = 1 /\ a[j - i + 1] = 1})],
                0, 1)

\* previous * 214013 + 2531011 modulo 2^Len(a).
RefLcg(a) == BitsMulAdd(a, 214013, 2531011)

\* ------------------------------------------------------------------------
\* FauxRand
\* ------------------------------------------------------------------------

VARIABLES
  pc,            \* the position of main
  run,           \* the loop variable of main
  T,             \* sizeof(T) of the element type being evaluated
  ArrSize,       \* the array length being evaluated
  arr,           \* arr.arr_ of the RandArray<T, ArrSize> under evaluation
  times,         \* Eval's locals baseline, byRef and byVal
  rnd,           \* rnd.next_: the state of the global generator
  gWork,         \* the work buffer: kSlots size_t accumulators, indexed from 0
  arrByValSums,  \* the totals of the by-value trials
  arrByRefSums,  \* the totals of the by-reference trials
  timingData,    \* the tables baselines_, byRefs_ and byVals_
  out,           \* Output's position: the table c and its two loop indices
  cout,          \* the lines written to standard output
  exitCode,      \* the value main returns (<< >> before it returns)
  clock,         \* the environment: what the clock will measure
  trace,         \* history: the calls made by the driver, in order
  writes,        \* history: how often SetTimes has written each table cell
  recorded,      \* history: the samples as SetTimes stored them
  used,          \* history: the two medians behind each data line
  faults,        \* history: failed assertions and writes outside a table
  t              \* the harness of the unit specifications

program == << pc, run, T, ArrSize, arr, times, rnd, gWork, arrByValSums, arrByRefSums,
              timingData, out, cout, exitCode >>

history == << trace, writes, recorded, used, faults >>

vars == << program, clock, history, t >>

\* FauxRand::FauxRand(seed) and the state after it.
FauxRand(seed) == seed

\* A Seed that folds the seed into the state instead of replacing it.
Seed_Accumulates(next_, seed) == Add(next_, seed)

\* FauxRand::Seed(seed): the new next_.
Seed(next_, seed) == seed

\* FauxRand::operator(): the new next_, which is also the value returned.
Call(next_) == MulAdd(next_, kMul, kInc)

\* ------------------------------------------------------------------------
\* RandomWork, RandArray and the functions that are timed.  The generator
\* and the work buffer are globals: an operation takes them as the record
\* g = [rnd, gWork] and yields them with its result.
\* ------------------------------------------------------------------------

\* A RandomWork that draws once and uses the value for slot and amount.
RandomWork_OneDraw(g) ==
  LET random == Call(g.rnd)
      slot == Mod(random, kSlots)
  IN  [rnd |-> random,
       gWork |-> [g.gWork EXCEPT ![slot] = Add(@, Xor(random, Shl1(random)))]]

\* RandomWork(): gWork[rnd() % kSlots] += random ^ (random << 1).
RandomWork(g) ==
  LET first == Call(g.rnd)
      slot == Mod(first, kSlots)
      random == Call(first)
  IN  [rnd |-> random,
       gWork |-> [g.gWork EXCEPT ![slot] = Add(@, Xor(random, Shl1(random)))]]

\* RandArray<T, N>::RandArray(): the elements are filled in order, each with
\* static_cast<T>(rnd()).  Yields [arr, rnd].
RECURSIVE FillFrom(_, _, _, _)
FillFrom(size, n, next_, filled) ==
  IF Len(filled) = n THEN [arr |-> filled, rnd |-> next_]
  ELSE LET v == Call(next_)
       IN  FillFrom(size, n, v, Append(filled, Truncate(v, size)))

RandArray(size, n, next_) == FillFrom(size, n, next_, << >>)

\* The loop of ComputeValue from iteration i on: [sum, rnd, draws], draws
\* being the values rnd() has returned since ComputeValue was entered.
RECURSIVE SumLoop(_, _, _, _, _, _)
SumLoop(a, i, numValuesToSum, sum, next_, draws) ==
  IF ~(i < numValuesToSum) THEN [sum |-> sum, rnd |-> next_, draws |-> draws]
  ELSE LET v == Call(next_)
           slot == Mod(v, Len(a))
       IN  SumLoop(a, i + 1, numValuesToSum, Add(sum, Widen(a[slot + 1])), v,
                   Append(draws, v))

\* A ComputeValue that sums one element more than it drew the count for.
ComputeValue_OneMore(a, next_) ==
  LET v == Call(next_)
  IN  SumLoop(a, 0, Mod(v, kValuesToSumMax) + 1, SizeT(0), v, << v >>)

\* RandArray<T, N>::ComputeValue() const.
ComputeValue(a, next_) ==
  LET v == Call(next_)
  IN  SumLoop(a, 0, Mod(v, kValuesToSumMax), SizeT(0), v, << v >>)

\* The copy of a RandArray made for a by-value parameter (std::array's
\* implicit copy constructor).
CopyOf(a) == [i \in 1 .. Len(a) |-> a[i]]

\* A ByVal that skips RandomWork.
ByVal_NoWork(a, g) ==
  LET param == CopyOf(a)
      v == ComputeValue(param, g.rnd)
  IN  [ret |-> v.sum, rnd |-> v.rnd, gWork |-> g.gWork, param |-> param, caller |-> a]

\* ByVal(arr): [ret, rnd, gWork, param, caller], param being the callee's
\* container and caller the caller's, both after the call.
ByVal(a, g) ==
  LET param == CopyOf(a)
      w == RandomWork(g)
      v == ComputeValue(param, w.rnd)
  IN  [ret |-> v.sum, rnd |-> v.rnd, gWork |-> w.gWork, param |-> param, caller |-> a]

\* ByRef(arr): the callee's container is the caller's.
ByRef(a, g) ==
  LET w == RandomWork(g)
      v == ComputeValue(a, w.rnd)
  IN  [ret |-> v.sum, rnd |-> v.rnd, gWork |-> w.gWork, param |-> a, caller |-> a]

\* The body of TimeArrBaseline's loop, the same work done inline.
BaselineBody(a, g) ==
  LET w == RandomWork(g)
      v == ComputeValue(a, w.rnd)
  IN  [ret |-> v.sum, rnd |-> v.rnd, gWork |-> w.gWork, param |-> a, caller |-> a]

\* The element sizes main evaluates: uint8_t, uint16_t, uint32_t, uint64_t.
ElemSizes == << 1, 2, 4, SizeofU64 >>

kMaxArraySizex2 == Pow2(MaxArraySizeExp)

\* Exp2 and Log2, the conversions between table indices and sizes.
Exp2(exponent) == Pow2(exponent)

RECURSIVE Log2(_)
Log2(powerOf2) == IF powerOf2 \div 2 = 0 THEN 0 ELSE 1 + Log2(powerOf2 \div 2)

\* std::has_single_bit, the assertion of Log2.
HasSingleBit(n) == n > 0 /\ Pow2(Log2(n)) = n

kCountOfElemSizesToEval == Log2(SizeofU64) + 1

kCountOfArraySizesToEval == Log2(kMaxArraySizex2)

\* ------------------------------------------------------------------------
\* GetMedian
\* ------------------------------------------------------------------------

\* A collection of samples is a function on 0 .. size - 1.
Range(c) == {c[i] : i \in DOMAIN c}

Count(c, v) == Cardinality({i \in DOMAIN c : c[i] = v})

IsPermutation(d, c) ==
  /\ DOMAIN d = DOMAIN c
  /\ \A v \in Range(c) \cup Range(d) : Count(d, v) = Count(c, v)

\* The arrangements, as sequences, of the elements of c at the positions I.
RECURSIVE Orders(_, _)
Orders(c, I) ==
  IF I = {} THEN {<< >>}
  ELSE UNION {{<< c[i] >> \o s : s \in Orders(c, I \ {i})} : i \in I}

\* The permutations of c, each a function on the domain of c.
Reorderings(c) ==
  {[i \in DOMAIN c |-> s[i + 1]] : s \in Orders(c, DOMAIN c)}

\* An nth_element that leaves the collection as it is.
NthElement_Identity(c, n) == {c}

\* std::ranges::nth_element(c, begin + n): every reordering of c the
\* standard allows, that is, every permutation with no element before
\* position n greater, and none after it smaller, than the one at n.
NthElement(c, n) ==
  {d \in Reorderings(c) :
     \A i \in DOMAIN c : (i < n => d[i] <= d[n]) /\ (i > n => d[i] >= d[n])}

\* A GetMedian that reads the middle element before it reorders.
GetMedian_ReadsFirst(c) ==
  LET half == Cardinality(DOMAIN c) \div 2
  IN  {[c |-> d, ret |-> c[half]] : d \in NthElement(c, half)}

\* GetMedian(c): the outcomes [c, ret], c being the collection as reordered
\* in place and ret the value returned.
GetMedian(c) ==
  LET half == Cardinality(DOMAIN c) \div 2
  IN  {[c |-> d, ret |-> d[half]] : d \in NthElement(c, half)}

\* ------------------------------------------------------------------------
\* TimingData
\* ------------------------------------------------------------------------

Tables == {"baselines_", "byRefs_", "byVals_"}

TimePerRun(v) == [r \in 0 .. kTotalRuns - 1 |-> v]

TimePerArraySize(v) == [a \in 0 .. kCountOfArraySizesToEval - 1 |-> TimePerRun(v)]

\* One table with every cell v; the tables are globals, zero at start.
Table(v) == [e \in 0 .. kCountOfElemSizesToEval - 1 |-> TimePerArraySize(v)]

InTable(elemSizeIdx, arrSizeIdx, r) ==
  /\ elemSizeIdx \in 0 .. kCountOfElemSizesToEval - 1
  /\ arrSizeIdx \in 0 .. kCountOfArraySizesToEval - 1
  /\ r \in 0 .. kTotalRuns - 1

\* TimingData::SetTimes<T>(arraySize, run, baseline, byRef, byVal) on the
\* tables td.  A write outside a table is not made (the fault is recorded
\* by the caller).
SetTimes(td, sizeofT, arraySize, r, baseline, byRef, byVal) ==
  LET elemSizeIdx == Log2(sizeofT)
      arrSizeIdx == Log2(arraySize)
  IN  IF ~InTable(elemSizeIdx, arrSizeIdx, r) THEN td
      ELSE [td EXCEPT !.baselines_[elemSizeIdx][arrSizeIdx][r] = baseline,
                      !.byRefs_[elemSizeIdx][arrSizeIdx][r] = byRef,
                      !.byVals_[elemSizeIdx][arrSizeIdx][r] = byVal]

\* An Output row that never prints a negative time.
OutputRow_Clamped(td, c, hdr, elemSizeIdx, arrSizeIdx) ==
  UNION {
    LET td1 == [td EXCEPT !.baselines_[elemSizeIdx][arrSizeIdx] = b.c]
    IN  {[td |-> [td1 EXCEPT ![c][elemSizeIdx][arrSizeIdx] = m.c],
          line |-> [kind |-> "data", hdr |-> hdr, arrSize |-> Exp2(arrSizeIdx),
                    elemSize |-> Exp2(elemSizeIdx),
                    time |-> IF m.ret < b.ret THEN 0 ELSE m.ret - b.ret],
          used |-> [baseline |-> b.ret, time |-> m.ret]]
           : m \in GetMedian(td1[c][elemSizeIdx][arrSizeIdx])}
      : b \in GetMedian(td.baselines_[elemSizeIdx][arrSizeIdx])}

\* The body of Output's inner loop for table c: the outcomes [td, line,
\* used], td being the tables after both GetMedian calls, line the line
\* printed and used the two medians behind it.
OutputRow(td, c, hdr, elemSizeIdx, arrSizeIdx) ==
  UNION {
    LET td1 == [td EXCEPT !.baselines_[elemSizeIdx][arrSizeIdx] = b.c]
    IN  {[td |-> [td1 EXCEPT ![c][elemSizeIdx][arrSizeIdx] = m.c],
          line |-> [kind |-> "data", hdr |-> hdr, arrSize |-> Exp2(arrSizeIdx),
                    elemSize |-> Exp2(elemSizeIdx), time |-> m.ret - b.ret],
          used |-> [baseline |-> b.ret, time |-> m.ret]]
           : m \in GetMedian(td1[c][elemSizeIdx][arrSizeIdx])}
      : b \in GetMedian(td.baselines_[elemSizeIdx][arrSizeIdx])}

\* The calls of OutputResults, in order: the table and its header.
OutputCalls == << [c |-> "byRefs_", hdr |-> "by ref"], [c |-> "byVals_", hdr |-> "by val"] >>

\* Output's loops with the array size in the outer loop.
NextOut_ArrayMajor(o) ==
  IF o.elemSizeIdx + 1 < kCountOfElemSizesToEval
    THEN [o EXCEPT !.elemSizeIdx = @ + 1]
  ELSE IF o.arrSizeIdx + 1 < kCountOfArraySizesToEval
    THEN [o EXCEPT !.arrSizeIdx = @ + 1, !.elemSizeIdx = 0]
  ELSE [call |-> o.call + 1, elemSizeIdx |-> 0, arrSizeIdx |-> 0]

\* The position after one row: the next array size, else the next element
\* size, else the next call of Output.
NextOut(o) ==
  IF o.arrSizeIdx + 1 < kCountOfArraySizesToEval
    THEN [o EXCEPT !.arrSizeIdx = @ + 1]
  ELSE IF o.elemSizeIdx + 1 < kCountOfElemSizesToEval
    THEN [o EXCEPT !.elemSizeIdx = @ + 1, !.arrSizeIdx = 0]
  ELSE [call |-> o.call + 1, elemSizeIdx |-> 0, arrSizeIdx |-> 0]

\* ------------------------------------------------------------------------
\* Timer and the timed loops
\* ------------------------------------------------------------------------

Modes == {"baseline", "byRef", "byVal"}

\* Largest load and cost the clock adds to a measurement.
MaxElapsed == 1

\* What the clock measures: a cost per kind of loop, the same throughout,
\* and the load of the machine during the current run.
Costs == [Modes -> 0 .. MaxElapsed]

Loads == 0 .. MaxElapsed

\* Timer::GetElapsedMs() after a loop of kind mode.
GetElapsedMs(clk, mode) == clk.load + clk.cost[mode]

\* The loop of TimeArrBaseline from pass i on, s being [sum, rnd, gWork].
RECURSIVE BaselineLoop(_, _, _)
BaselineLoop(a, s, i) ==
  IF ~(i < kTotalPasses) THEN s
  ELSE LET r == BaselineBody(a, s)
       IN  BaselineLoop(a, [sum |-> Add(s.sum, r.ret), rnd |-> r.rnd, gWork |-> r.gWork], i + 1)

\* TimeArrBaseline(arr) but for the time: [sum, rnd, gWork] after the loop.
TimeArrBaseline(a, g) == BaselineLoop(a, [sum |-> SizeT(0), rnd |-> g.rnd, gWork |-> g.gWork], 0)

\* The loop of TimeArrByRef from pass i on, s being [sum, rnd, gWork].
RECURSIVE ByRefLoop(_, _, _)
ByRefLoop(a, s, i) ==
  IF ~(i < kTotalPasses) THEN s
  ELSE LET r == ByRef(a, s)
       IN  ByRefLoop(a, [sum |-> Add(s.sum, r.ret), rnd |-> r.rnd, gWork |-> r.gWork], i + 1)

\* TimeArrByRef(arr) but for the time: [sum, rnd, gWork] after the loop.
TimeArrByRef(a, g) == ByRefLoop(a, [sum |-> SizeT(0), rnd |-> g.rnd, gWork |-> g.gWork], 0)

\* The loop of TimeArrByVal from pass i on, s being [sum, rnd, gWork].
RECURSIVE ByValLoop(_, _, _)
ByValLoop(a, s, i) ==
  IF ~(i < kTotalPasses) THEN s
  ELSE LET r == ByVal(a, s)
       IN  ByValLoop(a, [sum |-> Add(s.sum, r.ret), rnd |-> r.rnd, gWork |-> r.gWork], i + 1)

\* TimeArrByVal(arr) but for the time: [sum, rnd, gWork] after the loop.
TimeArrByVal(a, g) == ByValLoop(a, [sum |-> SizeT(0), rnd |-> g.rnd, gWork |-> g.gWork], 0)

\* ------------------------------------------------------------------------
\* main and EvalParamPassing
\* ------------------------------------------------------------------------

\* sizeof(int).
SizeofInt == 4

\* static_cast<int>(x): the low bytes of x as a two's complement number.
ToInt(x) ==
  LET top == x[SizeofInt]
      Upto[i \in 1 .. SizeofInt] ==
        IF i = SizeofInt THEN (IF top >= Base \div 2 THEN top - Base ELSE top)
        ELSE Upto[i + 1] * Base + x[i]
  IN  Upto[1]

\* A return value taken from the last totals recorded.
ExitValue_Back(byValSums, byRefSums) ==
  ToInt(Add(byValSums[Len(byValSums)], byRefSums[Len(byRefSums)]))

\* static_cast<int>(arrByValSums.front() + arrByRefSums.front()).
ExitValue(byValSums, byRefSums) == ToInt(Add(byValSums[1], byRefSums[1]))

\* The loop test of main with one run too many.
RunsLeft_OneMore(r) == r <= kTotalRuns

\* run < kTotalRuns, the loop test of main.
RunsLeft(r) == r < kTotalRuns

\* A base case that is reached one size late.
AtMaxArrSize_Late(arrSize) == arrSize = kMaxArraySizex2 * 2

\* The base case of EvalParamPassing: ArrSize has reached MaxArrSize.
AtMaxArrSize(arrSize) == arrSize = kMaxArraySizex2

Event(call) == [call |-> call, run |-> run, T |-> T, ArrSize |-> ArrSize]

\* The state of the driver in the unit specifications, where it does not run.
IdleDriver ==
  /\ pc = "idle"
  /\ run = 0
  /\ times = [m \in Modes |-> 0]
  /\ arrByValSums = << >>
  /\ arrByRefSums = << >>
  /\ timingData = [tbl \in Tables |-> Table(0)]
  /\ out = [call |-> 1, elemSizeIdx |-> 0, arrSizeIdx |-> 0]
  /\ cout = << >>
  /\ exitCode = << >>
  /\ clock = [load |-> 0, cost |-> [m \in Modes |-> 0]]
  /\ trace = << >>
  /\ writes = [tbl \in Tables |-> Table(0)]
  /\ recorded = [tbl \in Tables |-> Table(0)]
  /\ used = << >>
  /\ faults = {}

\* The program as it starts: the globals are constructed, main is entered.
Init ==
  /\ pc = "main"
  /\ run = 0
  /\ T = ElemSizes[1]
  /\ ArrSize = 1
  /\ arr = << >>
  /\ times = [m \in Modes |-> 0]
  /\ rnd = FauxRand(SizeT(kGlobalSeed))
  /\ gWork = [i \in 0 .. kSlots - 1 |-> SizeT(0)]
  /\ arrByValSums = << >>
  /\ arrByRefSums = << >>
  /\ timingData = [tbl \in Tables |-> Table(0)]
  /\ out = [call |-> 1, elemSizeIdx |-> 0, arrSizeIdx |-> 0]
  /\ cout = << >>
  /\ exitCode = << >>
  /\ clock \in {[load |-> 0, cost |-> c] : c \in Costs}
  /\ trace = << >>
  /\ writes = [tbl \in Tables |-> Table(0)]
  /\ recorded = [tbl \in Tables |-> Table(0)]
  /\ used = << >>
  /\ faults = {}
  /\ t = << >>

\* main is entered: the banner is printed and the loop initialised.
MainStart ==
  /\ pc = "main"
  /\ cout' = Append(cout, [kind |-> "banner"])
  /\ run' = 0
  /\ pc' = "for"
  /\ UNCHANGED << T, ArrSize, arr, times, rnd, gWork, arrByValSums, arrByRefSums,
                  timingData, out, exitCode, clock, history, t >>

\* The loop test holds: "Run # run" is printed and the first Eval is called.
\* The environment settles the load of the machine during this run.
ForEnter ==
  /\ pc = "for"
  /\ RunsLeft(run)
  /\ cout' = Append(cout, [kind |-> "run", run |-> run])
  /\ T' = ElemSizes[1]
  /\ ArrSize' = 1
  /\ pc' = "Eval"
  /\ \E l \in Loads : clock' = [clock EXCEPT !.load = l]
  /\ UNCHANGED << run, arr, times, rnd, gWork, arrByValSums, arrByRefSums,
                  timingData, out, exitCode, history, t >>

\* The loop test fails: the header is printed and OutputResults is called.
ForExit ==
  /\ pc = "for"
  /\ ~RunsLeft(run)
  /\ cout' = Append(cout, [kind |-> "header"])
  /\ out' = [call |-> 1, elemSizeIdx |-> 0, arrSizeIdx |-> 0]
  /\ trace' = Append(trace, [call |-> "OutputResults", run |-> run, T |-> 0, ArrSize |-> 0])
  /\ pc' = "Output"
  /\ UNCHANGED << run, T, ArrSize, arr, times, rnd, gWork, arrByValSums, arrByRefSums,
                  timingData, exitCode, clock, writes, recorded, used, faults, t >>

\* EvalParamPassing<T, MaxArrSize, ArrSize>::Eval(run) is entered: the
\* container is constructed and the progress line printed.
EvalConstruct ==
  /\ pc = "Eval"
  /\ ~AtMaxArrSize(ArrSize)
  /\ \E made \in {RandArray(T, ArrSize, rnd)} :
       /\ arr' = made.arr
       /\ rnd' = made.rnd
  /\ cout' = Append(cout, [kind |-> "timing", arrSize |-> ArrSize, sizeofT |-> T])
  /\ trace' = Append(trace, Event("RandArray"))
  /\ pc' = "baseline"
  /\ UNCHANGED << run, T, ArrSize, times, gWork, arrByValSums, arrByRefSums,
                  timingData, out, exitCode, clock, writes, recorded, used, faults, t >>

\* The base case of Eval returns, and with it every Eval that called it:
\* main calls Eval for the next element type, or ends the run.
EvalReturn ==
  /\ pc = "Eval"
  /\ AtMaxArrSize(ArrSize)
  /\ LET i == CHOOSE j \in 1 .. Len(ElemSizes) : ElemSizes[j] = T
     IN  IF i < Len(ElemSizes)
           THEN /\ T' = ElemSizes[i + 1]
                /\ ArrSize' = 1
                /\ pc' = "Eval"
                /\ run' = run
           ELSE /\ run' = run + 1
                /\ pc' = "for"
                /\ UNCHANGED << T, ArrSize >>
  /\ UNCHANGED << arr, times, rnd, gWork, arrByValSums, arrByRefSums,
                  timingData, out, cout, exitCode, clock, history, t >>

\* auto baseline = TimeArrBaseline( arr );
EvalBaseline ==
  /\ pc = "baseline"
  /\ \E r \in {TimeArrBaseline(arr, [rnd |-> rnd, gWork |-> gWork])} :
       /\ rnd' = r.rnd
       /\ gWork' = r.gWork
  /\ times' = [times EXCEPT !["baseline"] = GetElapsedMs(clock, "baseline")]
  /\ trace' = Append(trace, Event("TimeArrBaseline"))
  /\ pc' = "byRef"
  /\ UNCHANGED << run, T, ArrSize, arr, arrByValSums, arrByRefSums,
                  timingData, out, cout, exitCode, clock, writes, recorded, used, faults, t >>

\* auto byRef = TimeArrByRef( arr );
EvalByRef ==
  /\ pc = "byRef"
  /\ \E r \in {TimeArrByRef(arr, [rnd |-> rnd, gWork |-> gWork])} :
       /\ rnd' = r.rnd
       /\ gWork' = r.gWork
       /\ arrByRefSums' = Append(arrByRefSums, r.sum)
  /\ times' = [times EXCEPT !["byRef"] = GetElapsedMs(clock, "byRef")]
  /\ trace' = Append(trace, Event("TimeArrByRef"))
  /\ pc' = "byVal"
  /\ UNCHANGED << run, T, ArrSize, arr, arrByValSums,
                  timingData, out, cout, exitCode, clock, writes, recorded, used, faults, t >>

\* auto byVal = TimeArrByVal( arr );
EvalByVal ==
  /\ pc = "byVal"
  /\ \E r \in {TimeArrByVal(arr, [rnd |-> rnd, gWork |-> gWork])} :
       /\ rnd' = r.rnd
       /\ gWork' = r.gWork
       /\ arrByValSums' = Append(arrByValSums, r.sum)
  /\ times' = [times EXCEPT !["byVal"] = GetElapsedMs(clock, "byVal")]
  /\ trace' = Append(trace, Event("TimeArrByVal"))
  /\ pc' = "SetTimes"
  /\ UNCHANGED << run, T, ArrSize, arr, arrByRefSums,
                  timingData, out, cout, exitCode, clock, writes, recorded, used, faults, t >>

\* timingData.SetTimes<T>( ArrSize, run, baseline, byRef, byVal ), then the
\* recursive call of Eval for the next size.
EvalSetTimes ==
  /\ pc = "SetTimes"
  /\ timingData' = SetTimes(timingData, T, ArrSize, run,
                            times["baseline"], times["byRef"], times["byVal"])
  /\ recorded' = SetTimes(recorded, T, ArrSize, run,
                          times["baseline"], times["byRef"], times["byVal"])
  /\ writes' = SetTimes(writes, T, ArrSize, run,
                        writes.baselines_[Log2(T)][Log2(ArrSize)][run] + 1,
                        writes.byRefs_[Log2(T)][Log2(ArrSize)][run] + 1,
                        writes.byVals_[Log2(T)][Log2(ArrSize)][run] + 1)
  /\ faults' = faults
                \cup (IF HasSingleBit(ArrSize) THEN {} ELSE {"Log2: not a power of two"})
                \cup (IF InTable(Log2(T), Log2(ArrSize), run) THEN {}
                      ELSE {"SetTimes: write outside the table"})
  /\ trace' = Append(trace, Event("SetTimes"))
  /\ ArrSize' = ArrSize * 2
  /\ pc' = "Eval"
  /\ UNCHANGED << run, T, arr, times, rnd, gWork, arrByValSums, arrByRefSums,
                  out, cout, exitCode, clock, used, t >>

\* One row of Output: the two medians are taken and the line is printed.
\* After the last row of the last call OutputResults returns.
OutputStep ==
  /\ pc = "Output"
  /\ \E o \in OutputRow(timingData, OutputCalls[out.call].c, OutputCalls[out.call].hdr,
                        out.elemSizeIdx, out.arrSizeIdx) :
       /\ timingData' = o.td
       /\ cout' = Append(cout, o.line)
       /\ used' = Append(used, o.used)
  /\ out' = NextOut(out)
  /\ pc' = IF out'.call > Len(OutputCalls) THEN "return" ELSE "Output"
  /\ UNCHANGED << run, T, ArrSize, arr, times, rnd, gWork, arrByValSums, arrByRefSums,
                  exitCode, clock, trace, writes, recorded, faults, t >>

\* return static_cast<int>( arrByValSums.front() + arrByRefSums.front() );
\* front() of an empty vector is undefined: any value may be returned.
MainReturn ==
  /\ pc = "return"
  /\ IF arrByValSums # << >> /\ arrByRefSums # << >>
       THEN /\ exitCode' = << ExitValue(arrByValSums, arrByRefSums) >>
            /\ faults' = faults
       ELSE /\ \E v \in -1 .. 1 : exitCode' = << v >>
            /\ faults' = faults \cup {"front: the vector is empty"}
  /\ pc' = "done"
  /\ UNCHANGED << run, T, ArrSize, arr, times, rnd, gWork, arrByValSums, arrByRefSums,
                  timingData, out, cout, clock, trace, writes, recorded, used, t >>

Next ==
  \/ MainStart
  \/ ForEnter
  \/ ForExit
  \/ EvalConstruct
  \/ EvalReturn
  \/ EvalBaseline
  \/ EvalByRef
  \/ EvalByVal
  \/ EvalSetTimes
  \/ OutputStep
  \/ MainReturn

Spec == Init /\ [][Next]_vars

\* ------------------------------------------------------------------------
\* Specification of the generator alone: a generator constructed in some
\* state is seeded, drawn from, seeded again with the same seed and drawn
\* from again.
\* ------------------------------------------------------------------------

\* Seeds: small values, and values close to 2^64.
SeedInputs ==
  {SizeT(n) : n \in 0 .. MaxSeed}
    \cup {[i \in 1 .. SizeofSizeT |-> Base - 1 - (IF i = 1 THEN n ELSE 0)] : n \in 0 .. MaxSeed}
    \cup {SizeT(kGlobalSeed)}

InitRand ==
  /\ IdleDriver
  /\ gWork = [i \in 0 .. kSlots - 1 |-> SizeT(0)]
  /\ T = 1
  /\ ArrSize = 1
  /\ arr = << >>
  /\ rnd \in {FauxRand(s) : s \in SeedInputs}
  /\ t \in {[seed |-> s, prior |-> rnd, rep |-> 0, outs |-> << << >>, << >> >>]
              : s \in SeedInputs}

\* rnd.Seed(t.seed), starting the next repetition.
RandSeed ==
  /\ t.rep < 2
  /\ t.rep = 1 => Len(t.outs[1]) > 0
  /\ rnd' = Seed(rnd, t.seed)
  /\ t' = [t EXCEPT !.rep = @ + 1]
  /\ UNCHANGED << pc, run, T, ArrSize, arr, times, gWork, arrByValSums, arrByRefSums,
                  timingData, out, cout, exitCode, clock, history >>

\* rnd(), the value appended to the outputs of the current repetition.
RandCall ==
  /\ t.rep \in 1 .. 2
  /\ Len(t.outs[t.rep]) < (IF t.rep = 1 THEN MaxDraws ELSE Len(t.outs[1]))
  /\ rnd' = Call(rnd)
  /\ t' = [t EXCEPT !.outs[t.rep] = Append(@, rnd')]
  /\ UNCHANGED << pc, run, T, ArrSize, arr, times, gWork, arrByValSums, arrByRefSums,
                  timingData, out, cout, exitCode, clock, history >>

NextRand == RandSeed \/ RandCall

SpecRand == InitRand /\ [][NextRand]_vars

\* ------------------------------------------------------------------------
\* Specification of one container: a RandArray<T, N> is constructed from a
\* generator in some state, and ComputeValue and one iteration of each of
\* the three timed paths are applied to it, each from the same state of the
\* generator and of the work buffer.
\* ------------------------------------------------------------------------

Paths == {"baseline", "byRef", "byVal"}

WorkInputs ==
  {[i \in 0 .. kSlots - 1 |-> SizeT(0)],
   [i \in 0 .. kSlots - 1 |-> [j \in 1 .. SizeofSizeT |-> Base - 1]]}

ArraySizes == {Pow2(e) : e \in 0 .. MaxArraySizeExp - 1}

InitCompute ==
  /\ IdleDriver
  /\ rnd \in {FauxRand(s) : s \in SeedInputs}
  /\ gWork \in WorkInputs
  /\ T \in {ElemSizes[i] : i \in 1 .. Len(ElemSizes)}
  /\ ArrSize \in ArraySizes
  /\ arr = << >>
  /\ t = [drawn |-> 0, built |-> FALSE, made |-> << >>, cv |-> << >>,
          res |-> [p \in Paths |-> << >>]]

\* rnd() before the container is constructed: the generator has been used.
UnitDraw ==
  /\ ~t.built
  /\ t.drawn < MaxDraws
  /\ rnd' = Call(rnd)
  /\ t' = [t EXCEPT !.drawn = @ + 1]
  /\ UNCHANGED << pc, run, T, ArrSize, arr, times, gWork, arrByValSums, arrByRefSums,
                  timingData, out, cout, exitCode, clock, history >>

\* RandArray<T, ArrSize> arr;
UnitConstruct ==
  /\ ~t.built
  /\ \E made \in {RandArray(T, ArrSize, rnd)} :
       /\ arr' = made.arr
       /\ rnd' = made.rnd
  /\ t' = [t EXCEPT !.built = TRUE, !.made = arr']
  /\ UNCHANGED << pc, run, T, ArrSize, times, gWork, arrByValSums, arrByRefSums,
                  timingData, out, cout, exitCode, clock, history >>

\* arr.ComputeValue(), its result kept in the harness.
UnitComputeValue ==
  /\ t.built
  /\ t.cv = << >>
  /\ t' = [t EXCEPT !.cv = << ComputeValue(arr, rnd) >>]
  /\ UNCHANGED << program, clock, history >>

\* One iteration of one timed path, its outcome kept in the harness.
UnitIterate ==
  /\ t.built
  /\ \E p \in Paths :
       /\ t.res[p] = << >>
       /\ LET g == [rnd |-> rnd, gWork |-> gWork]
              r == CASE p = "baseline" -> BaselineBody(arr, g)
                     [] p = "byRef" -> ByRef(arr, g)
                     [] p = "byVal" -> ByVal(arr, g)
          IN  t' = [t EXCEPT !.res[p] = << r >>]
  /\ UNCHANGED << program, clock, history >>

NextCompute == UnitDraw \/ UnitConstruct \/ UnitComputeValue \/ UnitIterate

SpecCompute == InitCompute /\ [][NextCompute]_vars

\* ------------------------------------------------------------------------
\* C5: Seed(S) followed by n calls of operator() yields the same n values
\* on every repetition, whatever the state before Seed(S); each value is the
\* previous state times 214013 plus 2531011 modulo 2^w, and the state of the
\* generator is the seed or the last value returned.
\* ------------------------------------------------------------------------
C5_SeedReproduces ==
  /\ \A r \in 1 .. 2 : \A i \in 1 .. Len(t.outs[r]) :
        ToBits(t.outs[r][i])
          = RefLcg(ToBits(IF i = 1 THEN t.seed ELSE t.outs[r][i - 1]))
  /\ \A i \in 1 .. Len(t.outs[2]) : t.outs[2][i] = t.outs[1][i]
  /\ t.rep >= 1 =>
        rnd = (IF t.outs[t.rep] = << >> THEN t.seed
               ELSE t.outs[t.rep][Len(t.outs[t.rep])])

\* The second repetition has drawn as many values as the first, from a seed
\* near 2^w (the recurrence wraps) that differs from the state before.
C5_Witness ==
  /\ t.rep = 2
  /\ Len(t.outs[2]) = MaxDraws
  /\ t.seed[SizeofSizeT] = Base - 1
  /\ t.prior # t.seed

\* ------------------------------------------------------------------------
\* Specification of GetMedian alone: it is called, and called again, on a
\* collection of an odd number of samples.
\* ------------------------------------------------------------------------

\* Largest sample, and the largest half length of a collection.
MaxSample == 3

MaxHalf == 1

SampleInputs ==
  UNION {[0 .. 2 * h -> 0 .. MaxSample] : h \in 0 .. MaxHalf}

InitMedian ==
  /\ IdleDriver
  /\ rnd = FauxRand(SizeT(kGlobalSeed))
  /\ gWork = [i \in 0 .. kSlots - 1 |-> SizeT(0)]
  /\ T = 1
  /\ ArrSize = 1
  /\ arr = << >>
  /\ t \in {[c |-> c, calls |-> << >>] : c \in SampleInputs}

\* GetMedian( t.c ): the collection is reordered in place, the call kept.
MedianCall ==
  /\ Len(t.calls) < 2
  /\ \E o \in GetMedian(t.c) :
       t' = [c |-> o.c, calls |-> Append(t.calls, [arg |-> t.c, ret |-> o.ret])]
  /\ UNCHANGED << program, clock, history >>

NextMedian == MedianCall

SpecMedian == InitMedian /\ [][NextMedian]_vars

\* ------------------------------------------------------------------------
\* Reference operators of C6
\* ------------------------------------------------------------------------

\* The value of the lowest bits of a, as many as n = 2^k has zeros: a % n.
BitsLow(a, n) ==
  LET Weight[i \in 1 .. Len(a) + 1] ==
        IF i > Len(a) \/ Pow2(i - 1) >= n THEN 0
        ELSE a[i] * Pow2(i - 1) + Weight[i + 1]
  IN  Weight[1]

\* The bits of an element (of any width) extended with zeros to len bits.
BitsOf(v, len) == LET b == ToBits(v) IN [i \in 1 .. len |-> IF i <= Len(b) THEN b[i] ELSE 0]

\* The elements a ComputeValue that drew d has selected, in order.
Selected(a, d) == [i \in 1 .. Len(d) - 1 |-> a[BitsLow(ToBits(d[i + 1]), Len(a)) + 1]]

\* The sum of the values vs in len bits (modulo 2^len).
BitsSum(vs, len) ==
  LET Upto[i \in 0 .. Len(vs)] ==
        IF i = 0 THEN [j \in 1 .. len |-> 0]
        ELSE BitsAdd(Upto[i - 1], BitsOf(vs[i], len))
  IN  Upto[Len(vs)]

WordBits == SizeofSizeT * CharBit

\* What C6 says of a result r of ComputeValue on a from generator state
\* next_, but for the value of the sum.
C6_Draws(a, next_, r) ==
  LET d == r.draws
      k == BitsLow(ToBits(d[1]), kValuesToSumMax)
  IN  /\ k \in 0 .. kValuesToSumMax - 1
      /\ Len(d) = 1 + k
      /\ \A i \in 1 .. Len(d) :
            ToBits(d[i]) = RefLcg(ToBits(IF i = 1 THEN next_ ELSE d[i - 1]))
      /\ r.rnd = d[Len(d)]
      /\ \A i \in 2 .. Len(d) : Mod(d[i], Len(a)) \in 0 .. Len(a) - 1
      /\ k = 0 => r.sum = SizeT(0)

\* ------------------------------------------------------------------------
\* C6 as stated: ComputeValue draws a count k = draw % kValuesToSumMax, then
\* exactly k further values, each used as slot draw % N, and returns the sum
\* of the k selected elements; it advances the generator 1 + k times,
\* returns 0 when k = 0 and leaves the container unchanged.  The sum is the
\* sum of the values as numbers.
\* ------------------------------------------------------------------------
C6_ExactSum ==
  t.cv # << >> =>
    /\ C6_Draws(arr, rnd, t.cv[1])
    /\ arr = t.made
    /\ BitsOf(t.cv[1].sum, WordBits + 2)
         = BitsSum(Selected(arr, t.cv[1].draws), WordBits + 2)

\* ------------------------------------------------------------------------
\* C6 as amended: the same, the sum being taken modulo 2^w, w the width of
\* size_t (the additions of ComputeValue wrap).
\* ------------------------------------------------------------------------
C6_SumModWord ==
  t.cv # << >> =>
    /\ C6_Draws(arr, rnd, t.cv[1])
    /\ arr = t.made
    /\ ToBits(t.cv[1].sum) = BitsSum(Selected(arr, t.cv[1].draws), WordBits)

\* ComputeValue has summed kValuesToSumMax - 1 elements of 64 bits and the
\* sum has wrapped.
C6_Witness ==
  /\ t.cv # << >>
  /\ Len(t.cv[1].draws) = kValuesToSumMax
  /\ T = SizeofU64
  /\ BitsOf(t.cv[1].sum, WordBits + 2)
       # BitsSum(Selected(arr, t.cv[1].draws), WordBits + 2)

\* ------------------------------------------------------------------------
\* C8: one iteration of each timed path is one RandomWork followed by one
\* ComputeValue on a container with the caller's contents; from the same
\* generator state and work buffer the three paths return the same sum and
\* leave the same generator state and work buffer, and the caller's
\* container is unchanged (the by-value copy equals it).
\* ------------------------------------------------------------------------
C8_PathsEquivalent ==
  LET w == RandomWork([rnd |-> rnd, gWork |-> gWork])
      v == ComputeValue(arr, w.rnd)
  IN  /\ \A p \in Paths :
            t.res[p] # << >> =>
              /\ t.res[p][1].ret = v.sum
              /\ t.res[p][1].rnd = v.rnd
              /\ t.res[p][1].gWork = w.gWork
              /\ t.res[p][1].param = arr
              /\ t.res[p][1].caller = arr
      /\ \A p, q \in Paths :
            (t.res[p] # << >> /\ t.res[q] # << >>) => t.res[p] = t.res[q]
      /\ t.built => arr = t.made

\* All three paths have run on a container of several elements, have
\* changed the work buffer and have returned a sum that is not zero.
C8_Witness ==
  /\ \A p \in Paths : t.res[p] # << >>
  /\ ArrSize > 1
  /\ t.res["byVal"][1].ret # SizeT(0)
  /\ t.res["byVal"][1].gWork # gWork


\* ------------------------------------------------------------------------
\* Reference operators: a full ascending sort, by insertion.
\* ------------------------------------------------------------------------

RECURSIVE Insert(_, _)
Insert(s, v) ==
  IF s = << >> THEN << v >>
  ELSE IF v <= Head(s) THEN << v >> \o s
  ELSE << Head(s) >> \o Insert(Tail(s), v)

RECURSIVE SortFrom(_, _)
SortFrom(c, i) ==
  IF i \notin DOMAIN c THEN << >> ELSE Insert(SortFrom(c, i + 1), c[i])

\* c in ascending order, as a sequence.
Sorted(c) == SortFrom(c, 0)

\* The element in the middle of c once c is fully sorted.
MiddleOfSorted(c) == Sorted(c)[Cardinality(DOMAIN c) \div 2 + 1]

\* C1: for a collection of an odd number of samples, GetMedian returns the
\* element that is in the middle position of the collection after a full
\* ascending sort.
C1_MedianIsMiddleOfSort ==
  \A k \in DOMAIN t.calls : t.calls[k].ret = MiddleOfSorted(t.calls[k].arg)

\* GetMedian has been called on three samples, two of them equal and the
\* smallest in the middle, so that the median was not in the middle.
C1_Witness ==
  /\ Len(t.calls) >= 1
  /\ LET c == t.calls[1].arg
     IN  /\ Cardinality(DOMAIN c) = 3
         /\ c[1] # t.calls[1].ret
         /\ c[0] = c[2]
         /\ c[1] < c[0]

\* ------------------------------------------------------------------------
\* Reference operators of the driver: the trials and the report as the
\* counting of their positions gives them.
\* ------------------------------------------------------------------------

\* The element types and the array sizes of one run, counted.
ElemTypes == Len(ElemSizes)

SizesPerType == Log2(kMaxArraySizex2)

TrialsPerRun == ElemTypes * SizesPerType

\* The steps of one trial, in order.
Steps == << "RandArray", "TimeArrBaseline", "TimeArrByRef", "TimeArrByVal", "SetTimes" >>

StepsOfDriver == Len(Steps) * kTotalRuns * TrialsPerRun

\* The i-th step of the driver if trials are ordered by run, then element
\* type, then array size.
ExpectedEvent(i) ==
  LET trial == (i - 1) \div Len(Steps)
  IN  [call |-> Steps[((i - 1) % Len(Steps)) + 1],
       run |-> trial \div TrialsPerRun,
       T |-> Pow2((trial \div SizesPerType) % ElemTypes),
       ArrSize |-> Pow2(trial % SizesPerType)]

\* The cells of a table.
Cells ==
  {<< e, a, r >> : e \in 0 .. kCountOfElemSizesToEval - 1,
                   a \in 0 .. kCountOfArraySizesToEval - 1,
                   r \in 0 .. kTotalRuns - 1}

\* The driver loop has finished.
LoopDone == pc \in {"Output", "return", "done"}

\* The data lines printed so far, in order.
DataLines == SelectSeq(cout, LAMBDA l : l.kind = "data")

\* C2: when the driver loop has finished and before OutputResults starts,
\* every cell of the three tables (one per element size index, array size
\* index and run index) has been written exactly once by SetTimes; no cell
\* is written twice and no write falls outside a table.
C2_EveryCellWrittenOnce ==
  /\ faults = {}
  /\ \A tbl \in Tables : \A c \in Cells : writes[tbl][c[1]][c[2]][c[3]] <= 1
  /\ LoopDone => \A tbl \in Tables : \A c \in Cells : writes[tbl][c[1]][c[2]][c[3]] = 1
  /\ used = << >> => timingData = recorded

\* The loop has finished, OutputResults has not read a cell yet, and the
\* tables hold times that differ.
C2_Witness ==
  /\ pc = "Output"
  /\ used = << >>
  /\ \A tbl \in Tables : \A c \in Cells : writes[tbl][c[1]][c[2]][c[3]] = 1
  /\ \E c \in Cells : timingData.byVals_[c[1]][c[2]][c[3]] # timingData.baselines_[c[1]][c[2]][c[3]]
  /\ \E c, d \in Cells : timingData.byRefs_[c[1]][c[2]][c[3]] # timingData.byRefs_[d[1]][d[2]][d[3]]

\* What C9 says of every state: the steps taken so far are the first steps
\* of the trials in lexicographic order of (run, element type, array size).
C9_TrialInvariant ==
  /\ Len(trace) <= StepsOfDriver + 1
  /\ \A i \in DOMAIN trace :
        IF i <= StepsOfDriver THEN trace[i] = ExpectedEvent(i)
        ELSE trace[i].call = "OutputResults"
  /\ \A i \in DOMAIN trace : trace[i].ArrSize # kMaxArraySizex2
  /\ LoopDone => Len(trace) = StepsOfDriver + 1
  /\ StepsOfDriver = Len(Steps) * (kTotalRuns * 4 * Log2(kMaxArraySizex2))

\* A bound on the steps the program has left: three for every step of a
\* trial (and the call of OutputResults) to come, two for every line to
\* come, and what is left of the current statement.
C9_StepsLeft ==
  3 * (StepsOfDriver + 1 - Len(trace))
  + 2 * (Len(OutputCalls) * TrialsPerRun - Len(used))
  + (CASE pc = "main" -> 2
       [] pc = "Eval" /\ AtMaxArrSize(ArrSize) -> 2
       [] pc = "for" -> 1
       [] pc = "return" -> 1
       [] OTHER -> 0)

C9_Terminates ==
  /\ C9_StepsLeft' < C9_StepsLeft
  /\ C9_StepsLeft' >= 0
  /\ (C9_StepsLeft' = 0) <=> (pc' = "done")

\* C9: the driver performs its trials in lexicographic order of (run,
\* element type, array size), each trial doing the five steps in order;
\* the array size kMaxArraySizex2 is never evaluated; the driver terminates
\* after kTotalRuns * 4 * Log2(kMaxArraySizex2) trials, and OutputResults
\* is called only after the last trial.
C9_TrialOrder == []C9_TrialInvariant /\ [][C9_Terminates]_vars

\* The driver has terminated after all its trials, the last of them on the
\* widest element type.
C9_Witness ==
  /\ pc = "done"
  /\ Len(trace) = StepsOfDriver + 1
  /\ trace[StepsOfDriver].T = SizeofU64
  /\ trace[StepsOfDriver].run = kTotalRuns - 1

\* The lines of the report: Len(OutputCalls) tables of TrialsPerRun lines.
LinesOfReport == Len(OutputCalls) * TrialsPerRun

\* What the i-th data line is about if the report is the "by ref" table
\* and then the "by val" table, each by ascending element size and, within
\* an element size, by ascending array size.
ExpectedLine(i) ==
  LET k == (i - 1) % TrialsPerRun
  IN  [hdr |-> IF i <= TrialsPerRun THEN "by ref" ELSE "by val",
       elemSize |-> Pow2(k \div SizesPerType),
       arrSize |-> Pow2(k % SizesPerType)]

\* The position of the cell a data line is about.
ElemIdx(l) == Log2(l.elemSize)

ArrIdx(l) == Log2(l.arrSize)

\* C3: the report lists all "by ref" lines before any "by val" line; within
\* each mode the lines are ordered by ascending element size and, within
\* an element size, by ascending array size; the report has exactly
\* 2 * kCountOfElemSizesToEval * kCountOfArraySizesToEval data lines.
C3_ReportOrder ==
  /\ Len(DataLines) <= LinesOfReport
  /\ \A i \in DOMAIN DataLines :
        LET l == DataLines[i]
        IN  [hdr |-> l.hdr, elemSize |-> l.elemSize, arrSize |-> l.arrSize] = ExpectedLine(i)
  /\ pc \in {"return", "done"} => Len(DataLines) = LinesOfReport
  /\ LinesOfReport = 2 * kCountOfElemSizesToEval * kCountOfArraySizesToEval
  /\ \A i, j \in DOMAIN cout :
        (cout[i].kind = "header" /\ cout[j].kind = "data") => i < j

\* The whole report has been printed, and the program has returned.
C3_Witness ==
  /\ pc = "done"
  /\ Len(DataLines) = LinesOfReport
  /\ DataLines[1].hdr = "by ref"
  /\ DataLines[LinesOfReport].hdr = "by val"

\* The median of the times recorded in a cell, by a full sort.
RecordedMedian(tbl, l) == MiddleOfSorted(recorded[tbl][ElemIdx(l)][ArrIdx(l)])

\* The table a data line reports.
TableOf(l) == IF l.hdr = "by ref" THEN "byRefs_" ELSE "byVals_"

\* C4 as the specification states it: every adjusted duration printed in
\* the report is non-negative.
C4_NeverNegative ==
  \A i \in DOMAIN DataLines : DataLines[i].time >= 0

\* C4: every adjusted duration printed in the report is the median of the
\* times recorded for the mode minus the median of the baseline times
\* recorded for the same cell, as a signed number: it is negative when the
\* mode's median is the smaller of the two.
C4_AdjustedIsDifference ==
  \A i \in DOMAIN DataLines :
     LET l == DataLines[i]
         time == RecordedMedian(TableOf(l), l)
         baseline == RecordedMedian("baselines_", l)
     IN  /\ l.time = time - baseline
         /\ l.time < 0 <=> time < baseline

\* A line has been printed for a cell whose median is below the median of
\* its baseline: the adjusted duration is negative.
C4_Witness ==
  \E i \in DOMAIN DataLines :
     /\ DataLines[i].time < 0
     /\ RecordedMedian(TableOf(DataLines[i]), DataLines[i])
          < RecordedMedian("baselines_", DataLines[i])

\* ------------------------------------------------------------------------
\* Reference operators of C7
\* ------------------------------------------------------------------------

\* The first trial of the program, from the state the globals are
\* constructed in: the totals its two timed loops return.
FirstTrial ==
  LET made == RandArray(ElemSizes[1], 1, FauxRand(SizeT(kGlobalSeed)))
      g0 == [rnd |-> made.rnd, gWork |-> [i \in 0 .. kSlots - 1 |-> SizeT(0)]]
      b == TimeArrBaseline(made.arr, g0)
      r == TimeArrByRef(made.arr, b)
      v == TimeArrByVal(made.arr, r)
  IN  [byRef |-> r.sum, byVal |-> v.sum]

IntBits == SizeofInt * CharBit

\* The number of steps named call taken so far.
Taken(call) == Cardinality({i \in DOMAIN trace : trace[i].call = call})

\* C7: the exit code is the low-order bits of arrByValSums[0] +
\* arrByRefSums[0], the sum taken modulo 2^w; both vectors are non-empty
\* when the exit code is computed, and their first entries are the totals
\* of the first trial (run 0, smallest element type, array size 1).
C7_ExitCode ==
  /\ Len(arrByRefSums) = Taken("TimeArrByRef")
  /\ Len(arrByValSums) = Taken("TimeArrByVal")
  /\ pc = "return" => arrByRefSums # << >> /\ arrByValSums # << >>
  /\ pc = "done" =>
       LET first == FirstTrial
       IN  /\ arrByRefSums[1] = first.byRef
           /\ arrByValSums[1] = first.byVal
           /\ Len(exitCode) = 1
           /\ NatBits(exitCode[1], IntBits)
                = SubSeq(BitsAdd(ToBits(first.byVal), ToBits(first.byRef)), 1, IntBits)
           /\ "front: the vector is empty" \notin faults

\* The program has returned an exit code that is not zero, and the totals
\* of the last trial are not those of the first.
C7_Witness ==
  /\ pc = "done"
  /\ exitCode # << 0 >>
  /\ arrByValSums[Len(arrByValSums)] # arrByValSums[1]
  /\ arrByRefSums[Len(arrByRefSums)] # arrByRefSums[1]

\* C10: GetMedian only permutes the collection it is given, so a cell of
\* a table holds the same times after it as before, and a second call on
\* the reordered cell returns the same value; the baseline median used for
\* a cell's "by ref" line and for its "by val" line is the same.
C10_MedianStable ==
  /\ \A tbl \in Tables : \A e \in 0 .. kCountOfElemSizesToEval - 1 :
        \A a \in 0 .. kCountOfArraySizesToEval - 1 :
           /\ IsPermutation(timingData[tbl][e][a], recorded[tbl][e][a])
           /\ \A o \in GetMedian(timingData[tbl][e][a]) :
                 /\ o.ret = MiddleOfSorted(recorded[tbl][e][a])
                 /\ IsPermutation(o.c, recorded[tbl][e][a])
  /\ Len(used) = Len(DataLines)
  /\ \A i, j \in DOMAIN DataLines :
        (ElemIdx(DataLines[i]) = ElemIdx(DataLines[j])
           /\ ArrIdx(DataLines[i]) = ArrIdx(DataLines[j]))
        => used[i].baseline = used[j].baseline

\* The "by val" line has been printed of a cell whose baseline times the
\* "by ref" pass had reordered, its median not being in the middle.
C10_Witness ==
  \E j \in DOMAIN DataLines :
     LET l == DataLines[j]
         was == recorded.baselines_[ElemIdx(l)][ArrIdx(l)]
     IN  /\ l.hdr = "by val"
         /\ timingData.baselines_[ElemIdx(l)][ArrIdx(l)] # was
         /\ was[kTotalRuns \div 2] # used[j].baseline

====
